---- MODULE Spec2Model ----
(***************************************************************************)
(* PyHulaPatcher (pyhula_patcher.py): a patcher object that locates the    *)
(* installed pyhula package, copies three catalog files into a backup      *)
(* tree, rewrites them in place and can copy the backup tree back.         *)
(*                                                                         *)
(* Text model.  A file's content is the sequence of its lines, exactly     *)
(* content.split('\n'); writing '\n'.join(lines) and reading it back is    *)
(* that sequence again.  A line is [ind, txt]: ind is the number of        *)
(* leading blanks, txt the rest of the line as a sequence of tokens.       *)
(* A token is a literal piece of text; the tokens are chosen so that none  *)
(* occurs inside another, hence Python's `s in line` for a single-line     *)
(* literal s is membership of the token s in txt.  The two prefix tests    *)
(* of the source, startswith('"""') and startswith('def '), are decided    *)
(* on the first token of the line.                                         *)
(***************************************************************************)
EXTENDS Integers, Sequences, FiniteSets, TLC

VARIABLES
    installed,        \* `import pyhula` succeeds on this machine
    fs,               \* live file of each catalog path: content or Absent
    bkdir,            \* <pyhula_path>/original_backup exists
    bk,               \* file under the backup tree, per catalog path
    pyhula_path,      \* self.pyhula_path is set (not None)
    backup_dir,       \* self.backup_dir is set (not None)
    patches_applied,  \* self.patches_applied
    pc,               \* position of the running entry point
    success_count,    \* local of apply_all_patches
    ret,              \* what the last call returned; none once the user has edited since
    verified,         \* what verify_patches returned in this run, or "none"
    phases,           \* history: phases the current apply_all_patches run entered
    results,          \* history: reason of each patch call of the current run
    pristine,         \* history: content of each live file at the start
    snap,             \* history: content create_backup last copied, per path
    edited,           \* history: something other than apply_all_patches ran
    proc,             \* the process main() last ran in: its mode and exit status
    budget            \* top-level calls and environment edits still allowed

vars == << installed, fs, bkdir, bk, pyhula_path, backup_dir, patches_applied,
           pc, success_count, ret, verified, phases, results, pristine, snap,
           edited, proc, budget >>

----------------------------------------------------------------------------
(* Bounds *)

\* most chunks (single lines, a header with its docstring, a short method) of
\* a generated file
MaxChunks == 3
\* most top-level calls and environment edits in one behaviour
MaxSteps == 3

----------------------------------------------------------------------------
(* Tokens *)

\* a path of the file system: no file there, or a file with its lines
Absent == [exists |-> FALSE, content |-> << >>]
File(content) == [exists |-> TRUE, content |-> content]

TQ         == "\"\"\""
DefPack    == "def pack(self, force_mavlink1=False):"
PackDoc    == "pack the MAVLink header into a byte string"
PackMarker == "# PYHULA_PATCH_APPLIED"
UdpMarker  == "# PYHULA_UDP_PATCH_APPLIED"
ApiMarker  == "# PYHULA_USERAPI_PATCH_APPLIED"
connect_pattern == "def connect(self, server_ip=\"192.168.100.1\"):"
DefOther   == "def unpack(self, data):"
DefStart   == "def start(self):"
Hash       == "# "

udp_bind_patterns ==
    << "self.sock.bind(('', self.listen_port))",
       "self.sock.bind((\"\", self.listen_port))",
       "sock.bind(('', port))",
       "sock.bind((\"\", port))" >>

L(n, t) == [ind |-> n, txt |-> t]

\* len(line) - len(line.lstrip())
Indent(line) == line.ind

\* line.strip(), as a token sequence (empty for a blank line)
Strip(line) == line.txt

\* s in line, for a single-line literal s
Contains(line, s) == \E j \in 1..Len(line.txt) : line.txt[j] = s

\* line.strip().startswith('"""')
StartsWithTQ(line) == Len(line.txt) > 0 /\ line.txt[1] = TQ

\* line.strip().startswith('def ')
StartsWithDef(line) ==
    Len(line.txt) > 0 /\ line.txt[1] \in {DefPack, connect_pattern, DefOther, DefStart}

\* s in content, for a single-line literal s
InContent(content, s) == \E i \in 1..Len(content) : Contains(content[i], s)

----------------------------------------------------------------------------
(* patch_mavlink_header *)

\* original_pack_pattern in content.  The literal is the header line preceded
\* by four blanks, the three docstring lines at depth 8, and eight blanks
\* opening a fifth line.
original_pack_pattern(content, i) ==
    /\ i + 4 <= Len(content)
    /\ content[i].txt = << DefPack >>
    /\ content[i].ind >= 4
    /\ content[i + 1] = L(8, << TQ >>)
    /\ content[i + 2] = L(8, << PackDoc >>)
    /\ content[i + 3] = L(8, << TQ >>)
    /\ content[i + 4].ind >= 8

\* mutant: only the header line is looked for, as the loop does
PackPatternIn_HeaderOnly(content) == InContent(content, DefPack)

PackPatternIn(content) == \E i \in 1..Len(content) : original_pack_pattern(content, i)

\* the lines of fixed_pack_code after the marker comment
FixedPackTail ==
    << L(8, << "try:" >>),
       L(12, << "# Ensure all values are proper integers" >>),
       L(12, << "magic = int(self.magic) if hasattr(self, 'magic') else 254" >>),
       L(12, << "length = int(self.length) if hasattr(self, 'length') else 0" >>),
       L(12, << "seq = int(self.seq) if hasattr(self, 'seq') else 0" >>),
       L(12, << "srcSystem = int(self.srcSystem) if hasattr(self, 'srcSystem') else 255" >>),
       L(12, << "srcComponent = int(self.srcComponent) if hasattr(self, 'srcComponent') else 190" >>),
       L(12, << "msgId = int(self.msgId) if hasattr(self, 'msgId') else 0" >>),
       L(12, << >>),
       L(12, << "return struct.pack('<BBBBBB', magic, length, seq, srcSystem, srcComponent, msgId)" >>),
       L(8, << "except (ValueError, TypeError) as e:" >>),
       L(12, << "# Fallback with default values if conversion fails" >>),
       L(12, << "print(f\"MAVLink header pack warning: {e}, using defaults\")" >>),
       L(12, << "return struct.pack('<BBBBBB', 254, 0, 0, 255, 190, 0)" >>),
       L(8, << >>) >>

\* the header and docstring fixed_pack_code opens with
FixedPackHead ==
    << L(4, << DefPack >>), L(8, << TQ >>), L(8, << PackDoc >>), L(8, << TQ >>) >>

\* mutant: the comment of the replacement does not carry the marker token
fixed_pack_code_NoMarker ==
    FixedPackHead
       \o << L(8, << "# Fix struct packing with proper integer conversion" >>) >>
       \o FixedPackTail

\* fixed_pack_code.split('\n')
fixed_pack_code ==
    FixedPackHead
       \o << L(8, << PackMarker, ": Fix struct packing with proper integer conversion" >>) >>
       \o FixedPackTail

\* mutant: a line at the header's own depth does not end the span
PackEnds_Deeper(line, indent_level) ==
    /\ Strip(line) # << >>
    /\ Indent(line) < indent_level
    /\ ~StartsWithTQ(line)

\* the test that ends the skipped span of the pack method
PackEnds(line, indent_level) ==
    /\ Strip(line) # << >>
    /\ Indent(line) <= indent_level
    /\ ~StartsWithTQ(line)

\* the loop over lines: new_lines after lines[i..] have been handled
RECURSIVE PackLoop(_, _, _, _, _)
PackLoop(lines, i, in_pack_method, indent_level, new_lines) ==
    IF i > Len(lines) THEN new_lines
    ELSE LET line == lines[i] IN
         IF Contains(line, DefPack)
         THEN PackLoop(lines, i + 1, TRUE, Indent(line), new_lines \o fixed_pack_code)
         ELSE IF in_pack_method
              THEN IF PackEnds(line, indent_level)
                   THEN PackLoop(lines, i + 1, FALSE, indent_level, Append(new_lines, line))
                   ELSE PackLoop(lines, i + 1, TRUE, indent_level, new_lines)
              ELSE PackLoop(lines, i + 1, FALSE, indent_level, Append(new_lines, line))

\* a call's return value, its reason, whether it opened the file for writing,
\* and the file it leaves behind
Outcome(ok, reason, wrote, file) ==
    [ok |-> ok, reason |-> reason, wrote |-> wrote, file |-> file]

\* mutant: the marker test is missing
PackAlreadyPatched_Never(content) == FALSE

\* the marker test that makes a second call a no-op
PackAlreadyPatched(content) == InContent(content, PackMarker)

\* what the call returns and the content of mavlink.py after it
patch_mavlink_header(file) ==
    IF ~file.exists THEN Outcome(FALSE, "FILE_MISSING", FALSE, file)
    ELSE IF PackAlreadyPatched(file.content) THEN Outcome(TRUE, "ALREADY_APPLIED", FALSE, file)
    ELSE IF PackPatternIn(file.content)
         THEN Outcome(TRUE, "APPLIED", TRUE, File(PackLoop(file.content, 1, FALSE, 0, << >>)))
         ELSE Outcome(FALSE, "PATTERN_NOT_FOUND", FALSE, file)

----------------------------------------------------------------------------
(* patch_udp_binding *)

\* mutant: the retry block does not open with the marker comment
robust_bind_NoMarker(pattern) ==
    << L(0, << "# Robust UDP binding" >>),
       L(8, << "try:" >>),
       L(12, << pattern >>),
       L(8, << "except OSError as e:" >>),
       L(12, << "if e.winerror == 10049:  # Address not valid" >>),
       L(16, << "# Try binding to localhost instead" >>),
       L(16, << "try:" >>),
       L(20, << "self.sock.bind(('127.0.0.1', self.listen_port))" >>),
       L(20, << "print(f\"UDP bound to localhost:{self.listen_port} (fallback)\")" >>),
       L(16, << "except:" >>),
       L(20, << "# Try any available port" >>),
       L(20, << "self.sock.bind(('127.0.0.1', 0))" >>),
       L(20, << "print(f\"UDP bound to localhost:{self.sock.getsockname()[1]} (auto-assigned)\")" >>),
       L(12, << "else:" >>),
       L(16, << "raise e" >>) >>

\* robust_bind.split('\n') for one pattern; its first line continues the line
\* the pattern stood on, its last line is continued by what followed the pattern
robust_bind(pattern) ==
    << L(0, << UdpMarker, ": Robust UDP binding" >>),
       L(8, << "try:" >>),
       L(12, << pattern >>),
       L(8, << "except OSError as e:" >>),
       L(12, << "if e.winerror == 10049:  # Address not valid" >>),
       L(16, << "# Try binding to localhost instead" >>),
       L(16, << "try:" >>),
       L(20, << "self.sock.bind(('127.0.0.1', self.listen_port))" >>),
       L(20, << "print(f\"UDP bound to localhost:{self.listen_port} (fallback)\")" >>),
       L(16, << "except:" >>),
       L(20, << "# Try any available port" >>),
       L(20, << "self.sock.bind(('127.0.0.1', 0))" >>),
       L(20, << "print(f\"UDP bound to localhost:{self.sock.getsockname()[1]} (auto-assigned)\")" >>),
       L(12, << "else:" >>),
       L(16, << "raise e" >>) >>

\* str.replace on one line: cur is the output line being built, rest the
\* tokens of the input line still to copy
RECURSIVE ReplaceLine(_, _, _)
ReplaceLine(cur, rest, pattern) ==
    IF rest = << >> THEN << cur >>
    ELSE IF Head(rest) = pattern
         THEN LET rb == robust_bind(pattern) IN
              << L(cur.ind, cur.txt \o rb[1].txt) >>
                 \o SubSeq(rb, 2, Len(rb) - 1)
                 \o ReplaceLine(rb[Len(rb)], Tail(rest), pattern)
         ELSE ReplaceLine(L(cur.ind, Append(cur.txt, Head(rest))), Tail(rest), pattern)

\* content.replace(pattern, robust_bind)
RECURSIVE Replace(_, _)
Replace(content, pattern) ==
    IF content = << >> THEN << >>
    ELSE ReplaceLine(L(Head(content).ind, << >>), Head(content).txt, pattern)
            \o Replace(Tail(content), pattern)

\* mutant: the last pattern of the list that occurs is taken, not the first
FirstPattern_Last(content) ==
    IF \E k \in 1..Len(udp_bind_patterns) : InContent(content, udp_bind_patterns[k])
    THEN CHOOSE k \in 1..Len(udp_bind_patterns) :
            /\ InContent(content, udp_bind_patterns[k])
            /\ \A m \in (k + 1)..Len(udp_bind_patterns) :
                  ~InContent(content, udp_bind_patterns[m])
    ELSE 0

\* the first pattern of udp_bind_patterns that occurs in content, 0 if none
FirstPattern(content) ==
    IF \E k \in 1..Len(udp_bind_patterns) : InContent(content, udp_bind_patterns[k])
    THEN CHOOSE k \in 1..Len(udp_bind_patterns) :
            /\ InContent(content, udp_bind_patterns[k])
            /\ \A m \in 1..(k - 1) : ~InContent(content, udp_bind_patterns[m])
    ELSE 0

UdpAlreadyPatched(content) == InContent(content, UdpMarker)

patch_udp_binding(file) ==
    IF ~file.exists THEN Outcome(FALSE, "FILE_MISSING", FALSE, file)
    ELSE IF UdpAlreadyPatched(file.content) THEN Outcome(TRUE, "ALREADY_APPLIED", FALSE, file)
    ELSE IF FirstPattern(file.content) # 0
         THEN Outcome(TRUE, "APPLIED", TRUE,
                      File(Replace(file.content, udp_bind_patterns[FirstPattern(file.content)])))
         ELSE Outcome(FALSE, "PATTERN_NOT_FOUND", FALSE, file)

----------------------------------------------------------------------------
(* patch_userapi_connection *)

\* robust_connect.split('\n'), with the indentation the literal carries
robust_connect ==
    << L(0, << connect_pattern >>),
       L(8, << TQ >>),
       L(8, << "connect to the drone with robust error handling" >>),
       L(8, << TQ >>),
       L(8, << ApiMarker >>),
       L(8, << "try:" >>),
       L(12, << "print(f\"Connecting to drone at {server_ip}...\")" >>),
       L(12, << "result = self._control_server.connect(server_ip)" >>),
       L(12, << "if result:" >>),
       L(16, << "print(\"Connection established\")" >>),
       L(12, << "else:" >>),
       L(16, << "print(\"Connection failed - no response from drone\")" >>),
       L(12, << "return result" >>),
       L(8, << "except Exception as e:" >>),
       L(12, << "print(f\"Connection error: {e}\")" >>),
       L(12, << "print(\"Troubleshooting:\")" >>),
       L(12, << "print(f\"1. Verify drone is at IP: {server_ip}\")" >>),
       L(12, << "print(\"2. Check WiFi connection to drone network\")" >>),
       L(12, << "print(\"3. Ensure drone is powered and in AP mode\")" >>),
       L(12, << "return False" >>) >>

\* ' ' * indent_level + robust_line if robust_line.strip() else ''
IndentedConnect(indent_level) ==
    [k \in 1..Len(robust_connect) |->
        IF Strip(robust_connect[k]) # << >>
        THEN L(indent_level + robust_connect[k].ind, robust_connect[k].txt)
        ELSE L(0, << >>)]

\* the test that ends the skipped span of the connect method
ConnectEnds(line, indent_level) ==
    /\ Strip(line) # << >>
    /\ Indent(line) <= indent_level
    /\ StartsWithDef(line)

RECURSIVE ConnectLoop(_, _, _, _, _)
ConnectLoop(lines, i, in_connect_method, indent_level, new_lines) ==
    IF i > Len(lines) THEN new_lines
    ELSE LET line == lines[i] IN
         IF Contains(line, connect_pattern)
         THEN ConnectLoop(lines, i + 1, TRUE, Indent(line),
                          new_lines \o IndentedConnect(Indent(line)))
         ELSE IF in_connect_method
              THEN IF ConnectEnds(line, indent_level)
                   THEN ConnectLoop(lines, i + 1, FALSE, indent_level, Append(new_lines, line))
                   ELSE ConnectLoop(lines, i + 1, TRUE, indent_level, new_lines)
              ELSE ConnectLoop(lines, i + 1, FALSE, indent_level, Append(new_lines, line))

ApiAlreadyPatched(content) == InContent(content, ApiMarker)

patch_userapi_connection(file) ==
    IF ~file.exists THEN Outcome(FALSE, "FILE_MISSING", FALSE, file)
    ELSE IF ApiAlreadyPatched(file.content) THEN Outcome(TRUE, "ALREADY_APPLIED", FALSE, file)
    ELSE IF InContent(file.content, connect_pattern)
         THEN Outcome(TRUE, "APPLIED", TRUE, File(ConnectLoop(file.content, 1, FALSE, 0, << >>)))
         ELSE Outcome(FALSE, "PATTERN_NOT_FOUND", FALSE, file)

----------------------------------------------------------------------------
(* The catalog and the file system *)

MavlinkPath == "pypack/fylo/mavlink.py"
TaskPath    == "pypack/system/taskcontroller.py"
UserapiPath == "userapi.py"

files_to_backup == << MavlinkPath, TaskPath, UserapiPath >>

Paths == { files_to_backup[k] : k \in 1..Len(files_to_backup) }

NoFiles == [p \in Paths |-> Absent]

\* the patch method that targets a path, applied to the file found there
PatchOf(path, file) ==
    CASE path = MavlinkPath -> patch_mavlink_header(file)
      [] path = TaskPath    -> patch_udp_binding(file)
      [] path = UserapiPath -> patch_userapi_connection(file)

MethodOf(path) ==
    CASE path = MavlinkPath -> "patch_mavlink_header"
      [] path = TaskPath    -> "patch_udp_binding"
      [] path = UserapiPath -> "patch_userapi_connection"

\* the name a patch method appends to patches_applied
FixName(path) ==
    CASE path = MavlinkPath -> "mavlink_header_fix"
      [] path = TaskPath    -> "udp_binding_fix"
      [] path = UserapiPath -> "userapi_connection_fix"

\* the phase of apply_all_patches that patches a path
PhaseOf(path) ==
    CASE path = MavlinkPath -> "APPLY_MAVLINK"
      [] path = TaskPath    -> "APPLY_UDP"
      [] path = UserapiPath -> "APPLY_USERAPI"

MarkerOf(path) ==
    CASE path = MavlinkPath -> PackMarker
      [] path = TaskPath    -> UdpMarker
      [] path = UserapiPath -> ApiMarker

Ret(op, via, ok, reason, wrote) ==
    [op |-> op, via |-> via, ok |-> ok, reason |-> reason, wrote |-> wrote]

NoRet == Ret("none", "none", FALSE, "none", FALSE)

----------------------------------------------------------------------------
(* Files the model starts from *)

BodyLine  == L(8, << "return struct.pack('<BBBBBB', self.magic, self.length)" >>)
BlankLine == L(0, << >>)
PackHead  == << L(4, << DefPack >>), L(8, << TQ >>), L(8, << PackDoc >>), L(8, << TQ >>) >>

\* pieces a generated mavlink.py is made of
MavChunks ==
    { PackHead,
      PackHead \o << BodyLine >>,
      << L(8, << DefPack >>) >>,
      << BodyLine >>,
      << L(4, << DefOther >>) >>,
      << BlankLine >>,
      << L(0, << "class MAVLink_header(object):" >>) >>,
      << L(4, << DefPack >>) >>,
      << L(4, << TQ >>) >>,
      << L(0, << Hash, DefPack >>) >>,
      << L(8, << PackMarker >>) >>,
      << L(8, << >>) >> }

\* pieces a generated taskcontroller.py is made of
TaskChunks ==
    { << L(8, << udp_bind_patterns[1] >>) >>,
      << L(8, << udp_bind_patterns[2] >>) >>,
      << L(4, << udp_bind_patterns[3] >>) >>,
      << L(4, << udp_bind_patterns[4], "  # listen" >>) >>,
      << L(8, << "self.", udp_bind_patterns[3] >>) >>,
      << L(8, << "self.sock = socket.socket(socket.AF_INET, socket.SOCK_DGRAM)" >>) >>,
      << BlankLine >>,
      << L(8, << UdpMarker >>) >> }

\* pieces a generated userapi.py is made of
ApiChunks ==
    { << L(4, << connect_pattern >>) >>,
      << L(4, << connect_pattern >>),
         L(8, << "return self._control_server.connect(server_ip)" >>) >>,
      << L(8, << connect_pattern >>) >>,
      << L(8, << "return self._control_server.connect(server_ip)" >>) >>,
      << L(4, << DefOther >>) >>,
      << L(0, << DefOther >>) >>,
      << BlankLine >>,
      << L(0, << "class UserApi:" >>) >>,
      << L(4, << "@property" >>) >>,
      << L(4, << TQ >>) >>,
      << L(0, << Hash, connect_pattern >>) >>,
      << L(8, << ApiMarker >>) >> }

ChunksOf(path) ==
    CASE path = MavlinkPath -> MavChunks
      [] path = TaskPath    -> TaskChunks
      [] path = UserapiPath -> ApiChunks

\* the contents made of at most n chunks
RECURSIVE Gen(_, _)
Gen(chunks, n) ==
    IF n = 0 THEN { << >> }
    ELSE LET shorter == Gen(chunks, n - 1) IN
         shorter \cup { s \o c : s \in shorter, c \in chunks }

Generated(path) == { File(c) : c \in Gen(ChunksOf(path), MaxChunks) \ { << >> } }

\* an installed copy of each catalog file, and one the patches do not fit
MavOrig  == << L(0, << "class MAVLink_header(object):" >>) >> \o PackHead
               \o << BodyLine, BlankLine, L(4, << DefOther >>), BodyLine >>
MavPlain == << L(0, << "class MAVLink_header(object):" >>), L(4, << DefOther >>), BodyLine >>
TaskOrig == << L(4, << DefStart >>),
               L(8, << "self.sock = socket.socket(socket.AF_INET, socket.SOCK_DGRAM)" >>),
               L(8, << udp_bind_patterns[1] >>), BlankLine >>
TaskPlain == << L(4, << DefStart >>), L(8, << "pass" >>) >>
ApiOrig  == << L(0, << "class UserApi:" >>), L(4, << connect_pattern >>),
               L(8, << "return self._control_server.connect(server_ip)" >>),
               BlankLine, L(4, << DefOther >>), BodyLine >>
ApiPlain == << L(0, << "class UserApi:" >>), L(4, << DefOther >>), BodyLine >>

Installed(path) ==
    CASE path = MavlinkPath -> { File(MavOrig), File(MavPlain), Absent }
      [] path = TaskPath    -> { File(TaskOrig), File(TaskPlain), Absent }
      [] path = UserapiPath -> { File(ApiOrig), File(ApiPlain), Absent }

----------------------------------------------------------------------------
(* The patcher object *)

\* no process: the patcher is driven by calls from other code
NoProc == [mode |-> "none", exited |-> FALSE, status |-> 0]

\* python pyhula_patcher.py started in one mode of main()
Started(mode) == [mode |-> mode, exited |-> FALSE, status |-> 0]

\* the process ends: main() returns (status 0) or an exception leaves it (status 1)
Exit(p, status) ==
    IF p.mode = "none" THEN p ELSE [p EXCEPT !.exited = TRUE, !.status = status]

Init ==
    /\ installed \in BOOLEAN
    /\ fs \in { f \in [Paths -> UNION { Installed(p) : p \in Paths }] :
                    \A p \in Paths : f[p] \in Installed(p) }
    /\ bkdir = FALSE
    /\ bk = NoFiles
    /\ pyhula_path = FALSE
    /\ backup_dir = FALSE
    /\ patches_applied = << >>
    /\ pc = "idle"
    /\ success_count = 0
    /\ ret = NoRet
    /\ verified = "none"
    /\ phases = << >>
    /\ results = << >>
    /\ pristine = fs
    /\ snap = NoFiles
    /\ edited = FALSE
    /\ proc = NoProc
    /\ budget = MaxSteps

\* PyHulaPatcher(): a new object, with find_pyhula_installation called on it
\* at once (located) or not yet
Fresh(located) ==
    /\ pyhula_path' = located
    /\ backup_dir' = FALSE
    /\ patches_applied' = << >>

\* a top-level call or an edit: the program is not running, and one more is allowed
Idle ==
    /\ pc = "idle"
    /\ budget > 0
    /\ budget' = budget - 1

\* mutant: the last entry of files_to_backup is missing
BackupCopy_SkipsLast(live, tree) ==
    [p \in Paths |-> IF live[p].exists /\ p # files_to_backup[Len(files_to_backup)]
                     THEN live[p] ELSE tree[p]]

\* what create_backup leaves in the backup tree: a copy of every catalog file
\* that exists, over whatever the tree held for that path
BackupCopy(live, tree) == [p \in Paths |-> IF live[p].exists THEN live[p] ELSE tree[p]]

\* mutant: a live file that exists is not overwritten
RestoreCopy_NoOverwrite(live, tree) ==
    [p \in Paths |-> IF tree[p].exists /\ ~live[p].exists THEN tree[p] ELSE live[p]]

\* what restore_backup leaves in the installation: every file of the backup
\* tree copied over the live file
RestoreCopy(live, tree) == [p \in Paths |-> IF tree[p].exists THEN tree[p] ELSE live[p]]

\* restore_backup's guard, on self.backup_dir and the directory on disk
CanRestore(dir_set, dir_exists) == dir_set /\ dir_exists

\* restore_backup on a patcher whose backup_dir is dir_set
restore_backup(dir_set, via) ==
    IF CanRestore(dir_set, bkdir)
    THEN /\ fs' = RestoreCopy(fs, bk)
         /\ ret' = Ret("restore_backup", via, TRUE, "RESTORED", TRUE)
    ELSE /\ fs' = fs
         /\ ret' = Ret("restore_backup", via, FALSE, "NO_BACKUP_DIR", FALSE)

\* create_backup on a patcher whose pyhula_path is set
create_backup ==
    /\ backup_dir' = TRUE
    /\ bkdir' = TRUE
    /\ bk' = BackupCopy(fs, bk)
    /\ snap' = [p \in Paths |-> IF fs[p].exists THEN fs[p] ELSE Absent]

\* one patch method called on the file at path
DoPatch(path, via) ==
    LET r == PatchOf(path, fs[path]) IN
    /\ fs' = [fs EXCEPT ![path] = r.file]
    /\ patches_applied' = IF r.reason = "APPLIED"
                          THEN Append(patches_applied, FixName(path))
                          ELSE patches_applied
    /\ ret' = Ret(MethodOf(path), via, r.ok, r.reason, r.wrote)

----------------------------------------------------------------------------
(* apply_all_patches, phase by phase *)

StartRun ==
    /\ pc' = "LOCATE_INSTALL"
    /\ success_count' = 0
    /\ verified' = "none"
    /\ phases' = << >>
    /\ results' = << >>
    /\ ret' = NoRet

\* main() with no mode flag: a new patcher runs apply_all_patches
main_patch ==
    /\ Idle
    /\ Fresh(FALSE)
    /\ StartRun
    /\ proc' = Started("patch")
    /\ UNCHANGED << installed, fs, bkdir, bk, pristine, snap, edited >>

\* apply_all_patches called again on the same patcher
apply_all_patches ==
    /\ Idle
    /\ StartRun
    /\ proc' = NoProc
    /\ UNCHANGED << installed, fs, bkdir, bk, pyhula_path, backup_dir,
                    patches_applied, pristine, snap, edited >>

\* mutant: a failed import does not end the run
LocateInstall_Continues ==
    /\ pc = "LOCATE_INSTALL"
    /\ phases' = Append(phases, "LOCATE_INSTALL")
    /\ pyhula_path' = (pyhula_path \/ installed)
    /\ pc' = "BACKUP"
    /\ ret' = ret
    /\ proc' = proc
    /\ UNCHANGED << installed, fs, bkdir, bk, backup_dir, patches_applied,
                    success_count, verified, results, pristine, snap, edited, budget >>

\* find_pyhula_installation; a failed import ends the run
LocateInstall ==
    /\ pc = "LOCATE_INSTALL"
    /\ phases' = Append(phases, "LOCATE_INSTALL")
    /\ IF installed
       THEN /\ pyhula_path' = TRUE
            /\ pc' = "BACKUP"
            /\ ret' = ret
       ELSE /\ pyhula_path' = pyhula_path
            /\ pc' = "idle"
            /\ ret' = Ret("apply_all_patches", "run", FALSE, "ABORTED", FALSE)
    /\ proc' = IF installed THEN proc ELSE Exit(proc, 0)
    /\ UNCHANGED << installed, fs, bkdir, bk, backup_dir, patches_applied,
                    success_count, verified, results, pristine, snap, edited, budget >>

\* create_backup; it returns False only without a pyhula_path
Backup ==
    /\ pc = "BACKUP"
    /\ phases' = Append(phases, "BACKUP")
    /\ IF pyhula_path
       THEN /\ create_backup
            /\ pc' = "APPLY_MAVLINK"
            /\ ret' = ret
       ELSE /\ UNCHANGED << backup_dir, bkdir, bk, snap >>
            /\ pc' = "idle"
            /\ ret' = Ret("apply_all_patches", "run", FALSE, "ABORTED", FALSE)
    /\ proc' = IF pyhula_path THEN proc ELSE Exit(proc, 0)
    /\ UNCHANGED << installed, fs, pyhula_path, patches_applied, success_count,
                    verified, results, pristine, edited, budget >>

\* mutant: the loop stops at the first patch method that fails
ApplyStep_StopOnFailure(phase, path, next) ==
    /\ pc = phase
    /\ phases' = Append(phases, phase)
    /\ DoPatch(path, "run")
    /\ success_count' = IF PatchOf(path, fs[path]).ok THEN success_count + 1 ELSE success_count
    /\ results' = Append(results, PatchOf(path, fs[path]).reason)
    /\ pc' = IF PatchOf(path, fs[path]).ok THEN next ELSE "VERIFY"
    /\ proc' = proc
    /\ UNCHANGED << installed, bkdir, bk, pyhula_path, backup_dir, verified,
                    pristine, snap, edited, budget >>

\* the loop over patches: one patch method, then success_count
ApplyStep(phase, path, next) ==
    /\ pc = phase
    /\ phases' = Append(phases, phase)
    /\ DoPatch(path, "run")
    /\ success_count' = IF PatchOf(path, fs[path]).ok THEN success_count + 1 ELSE success_count
    /\ results' = Append(results, PatchOf(path, fs[path]).reason)
    /\ pc' = next
    /\ proc' = proc
    /\ UNCHANGED << installed, bkdir, bk, pyhula_path, backup_dir, verified,
                    pristine, snap, edited, budget >>

ApplyMavlink == ApplyStep(PhaseOf(MavlinkPath), MavlinkPath, PhaseOf(TaskPath))

ApplyUdp == ApplyStep(PhaseOf(TaskPath), TaskPath, PhaseOf(UserapiPath))

ApplyUserapi == ApplyStep(PhaseOf(UserapiPath), UserapiPath, "VERIFY")

\* mutant: verify_patches runs whatever success_count is
Verify_Always ==
    /\ pc = "VERIFY"
    /\ phases' = Append(phases, "VERIFY")
    /\ \E reloaded \in BOOLEAN : verified' = IF reloaded THEN "ok" ELSE "failed"
    /\ pc' = "REPORT"
    /\ proc' = proc
    /\ UNCHANGED << installed, fs, bkdir, bk, pyhula_path, backup_dir, patches_applied,
                    success_count, ret, results, pristine, snap, edited, budget >>

\* verify_patches runs only after a successful patch; the reload may fail
Verify ==
    /\ pc = "VERIFY"
    /\ IF success_count > 0
       THEN /\ phases' = Append(phases, "VERIFY")
            /\ \E reloaded \in BOOLEAN : verified' = IF reloaded THEN "ok" ELSE "failed"
       ELSE /\ phases' = phases
            /\ verified' = verified
    /\ pc' = "REPORT"
    /\ proc' = proc
    /\ UNCHANGED << installed, fs, bkdir, bk, pyhula_path, backup_dir, patches_applied,
                    success_count, ret, results, pristine, snap, edited, budget >>

\* mutant: a failed verification turns the return value into failure
Report_VerifyGates ==
    /\ pc = "REPORT"
    /\ phases' = Append(phases, "REPORT")
    /\ ret' = Ret("apply_all_patches", "run",
                  success_count > 0 /\ verified # "failed", "COMPLETE", FALSE)
    /\ pc' = "idle"
    /\ proc' = Exit(proc, 0)
    /\ UNCHANGED << installed, fs, bkdir, bk, pyhula_path, backup_dir, patches_applied,
                    success_count, verified, results, pristine, snap, edited, budget >>

\* mutant: the return value counts only the files rewritten in this run
Report_OnlyRewrites ==
    /\ pc = "REPORT"
    /\ phases' = Append(phases, "REPORT")
    /\ ret' = Ret("apply_all_patches", "run",
                  \E k \in 1..Len(results) : results[k] = "APPLIED", "COMPLETE", FALSE)
    /\ pc' = "idle"
    /\ proc' = Exit(proc, 0)
    /\ UNCHANGED << installed, fs, bkdir, bk, pyhula_path, backup_dir, patches_applied,
                    success_count, verified, results, pristine, snap, edited, budget >>

\* the summary and the return value
Report ==
    /\ pc = "REPORT"
    /\ phases' = Append(phases, "REPORT")
    /\ ret' = Ret("apply_all_patches", "run", success_count > 0, "COMPLETE", FALSE)
    /\ pc' = "idle"
    /\ proc' = Exit(proc, 0)
    /\ UNCHANGED << installed, fs, bkdir, bk, pyhula_path, backup_dir, patches_applied,
                    success_count, verified, results, pristine, snap, edited, budget >>

----------------------------------------------------------------------------
(* The other entry points *)

\* main() --restore: a new patcher, find_pyhula_installation, restore_backup
main_restore ==
    /\ Idle
    /\ Fresh(installed)
    /\ restore_backup(FALSE, "main")
    /\ edited' = TRUE
    /\ proc' = Exit(Started("restore"), 0)
    /\ UNCHANGED << installed, bkdir, bk, pc, success_count, verified, phases,
                    results, pristine, snap >>

\* main() --verify: a new patcher, find_pyhula_installation, verify_patches
main_verify ==
    /\ Idle
    /\ Fresh(installed)
    /\ \E reloaded \in BOOLEAN :
          ret' = Ret("verify_patches", "main", installed /\ reloaded,
                     IF installed /\ reloaded THEN "VERIFIED" ELSE "VERIFY_FAILED", FALSE)
    /\ edited' = TRUE
    /\ proc' = Exit(Started("verify"), 0)
    /\ UNCHANGED << installed, fs, bkdir, bk, pc, success_count, verified, phases,
                    results, pristine, snap >>

\* restore_backup called on the patcher that made the backup
call_restore_backup ==
    /\ Idle
    /\ restore_backup(backup_dir, "api")
    /\ edited' = TRUE
    /\ proc' = NoProc
    /\ UNCHANGED << installed, bkdir, bk, pyhula_path, backup_dir, patches_applied,
                    pc, success_count, verified, phases, results, pristine, snap >>

\* create_backup called on its own
call_create_backup ==
    /\ Idle
    /\ IF pyhula_path
       THEN /\ create_backup
            /\ ret' = Ret("create_backup", "api", TRUE, "BACKED_UP", TRUE)
       ELSE /\ UNCHANGED << backup_dir, bkdir, bk, snap >>
            /\ ret' = Ret("create_backup", "api", FALSE, "NO_INSTALLATION", FALSE)
    /\ edited' = TRUE
    /\ proc' = NoProc
    /\ UNCHANGED << installed, fs, pyhula_path, patches_applied, pc, success_count,
                    verified, phases, results, pristine >>

\* the user edits, replaces or deletes a catalog file between two calls
Edit ==
    /\ Idle
    /\ \E p \in Paths : \E f \in Installed(p) : fs' = [fs EXCEPT ![p] = f]
    /\ ret' = NoRet
    /\ edited' = TRUE
    /\ proc' = NoProc
    /\ UNCHANGED << installed, bkdir, bk, pyhula_path, backup_dir, patches_applied,
                    pc, success_count, verified, phases, results, pristine, snap >>

\* the user removes the backup directory between two calls
DeleteBackup ==
    /\ Idle
    /\ bkdir
    /\ bkdir' = FALSE
    /\ bk' = NoFiles
    /\ ret' = NoRet
    /\ edited' = TRUE
    /\ proc' = NoProc
    /\ UNCHANGED << installed, fs, pyhula_path, backup_dir, patches_applied,
                    pc, success_count, verified, phases, results, pristine, snap >>

Next ==
    \/ main_patch
    \/ apply_all_patches
    \/ LocateInstall
    \/ Backup
    \/ ApplyMavlink
    \/ ApplyUdp
    \/ ApplyUserapi
    \/ Verify
    \/ Report
    \/ main_restore
    \/ main_verify
    \/ call_restore_backup
    \/ call_create_backup
    \/ Edit
    \/ DeleteBackup

Spec == Init /\ [][Next]_vars

----------------------------------------------------------------------------
(* The patch methods called one at a time on generated files *)

InitPatch ==
    /\ installed = TRUE
    /\ \E p \in Paths : \E f \in Generated(p) : fs = [NoFiles EXCEPT ![p] = f]
    /\ bkdir = FALSE
    /\ bk = NoFiles
    /\ pyhula_path = TRUE
    /\ backup_dir = FALSE
    /\ patches_applied = << >>
    /\ pc = "idle"
    /\ success_count = 0
    /\ ret = NoRet
    /\ verified = "none"
    /\ phases = << >>
    /\ results = << >>
    /\ pristine = fs
    /\ snap = NoFiles
    /\ edited = FALSE
    /\ proc = NoProc
    /\ budget = MaxSteps

CallPatch(path) ==
    /\ Idle
    /\ pyhula_path
    /\ DoPatch(path, "api")
    /\ proc' = proc
    /\ UNCHANGED << installed, bkdir, bk, pyhula_path, backup_dir, pc, success_count,
                    verified, phases, results, pristine, snap, edited >>

call_patch_mavlink_header == CallPatch(MavlinkPath)

call_patch_udp_binding == CallPatch(TaskPath)

call_patch_userapi_connection == CallPatch(UserapiPath)

NextPatch ==
    \/ call_patch_mavlink_header
    \/ call_patch_udp_binding
    \/ call_patch_userapi_connection

SpecPatch == InitPatch /\ [][NextPatch]_vars

----------------------------------------------------------------------------
(* I/O faults in the patch loop *)

\* what a failed write can leave at a path: open(path, 'w') refused (the old
\* file), or the file truncated and only some of the new lines written
WriteFaultLeaves(old, new) ==
    { old, File(<< L(0, << >>) >>) }
        \cup { File(SubSeq(new.content, 1, n)) : n \in 1..(Len(new.content) - 1) }

\* open() or f.write() of a patch method raises OSError during the loop of
\* apply_all_patches: nothing catches it, so it leaves the patch method,
\* the loop and apply_all_patches
ApplyFault ==
    \E path \in Paths :
        /\ pc = PhaseOf(path)
        /\ fs[path].exists
        /\ phases' = Append(phases, PhaseOf(path))
        /\ results' = Append(results, "IO_FAULT")
        /\ \/ fs' = fs
           \/ /\ PatchOf(path, fs[path]).wrote
              /\ \E f \in WriteFaultLeaves(fs[path], PatchOf(path, fs[path]).file) :
                    fs' = [fs EXCEPT ![path] = f]
        /\ ret' = Ret("apply_all_patches", "run", FALSE, "RAISED", fs'[path] # fs[path])
        /\ pc' = "idle"
        /\ proc' = Exit(proc, 1)
        /\ UNCHANGED << installed, bkdir, bk, pyhula_path, backup_dir, patches_applied,
                        success_count, verified, pristine, snap, edited, budget >>

NextFault ==
    \/ Next
    \/ ApplyFault

SpecFault == Init /\ [][NextFault]_vars

----------------------------------------------------------------------------
(* Properties *)

Range(seq) == { seq[k] : k \in 1..Len(seq) }

\* this patcher has rewritten the file at path
Applied(path) == FixName(path) \in Range(patches_applied)

\* a step that is a top-level call of op
Called(op) == budget' # budget /\ ret'.op = op

\* C1: once a patch method has patched its file, every later call of the same
\* method finds the marker, returns ALREADY_APPLIED, opens nothing for writing
\* and leaves the file as the first successful call left it.
C1_Idempotent ==
    [][\A p \in Paths :
          (Applied(p) /\ Called(MethodOf(p)))
             => (ret'.reason = "ALREADY_APPLIED" /\ ret'.ok /\ ~ret'.wrote /\ fs' = fs)]_vars

\* a patch method applied its patch and was then called twice more
C1_Witness ==
    \E p \in Paths :
       /\ Applied(p)
       /\ ret.op = MethodOf(p)
       /\ ret.reason = "ALREADY_APPLIED"
       /\ budget = MaxSteps - 3

\* C2: create_backup, then any edits of the catalog files, then restore_backup
\* on the same patcher: the restore succeeds and every file create_backup
\* copied has the content it had when create_backup ran.
C2_RoundTrip ==
    [][(Called("restore_backup") /\ ret'.via = "api" /\ backup_dir /\ bkdir)
          => (ret'.ok /\ \A p \in Paths : snap[p].exists => fs'[p] = snap[p])]_vars

\* a file this patcher had patched after backing it up is back, unpatched
C2_Witness ==
    /\ ret.op = "restore_backup"
    /\ ret.ok
    /\ \E p \in Paths :
          /\ Applied(p)
          /\ snap[p].exists
          /\ fs[p] = snap[p]
          /\ ~InContent(fs[p].content, MarkerOf(p))

\* C3: in a run of apply_all_patches a target file is written only after the
\* BACKUP phase of the same run copied that very content into the backup tree,
\* and no state of a run has a rewritten target without a backup copy.
C3_BackupPrecedesWrite ==
    /\ [](pc # "idle" =>
            \A k \in 1..Len(results) :
               results[k] = "APPLIED" => bk[files_to_backup[k]].exists)
    /\ [][\A p \in Paths :
             (pc # "idle" /\ (fs'[p] # fs[p] \/ (pc = PhaseOf(p) /\ pc' # pc /\ ret'.wrote)))
                => ("BACKUP" \in Range(phases) /\ bk[p] = fs[p])]_vars

\* a run has rewritten a target and is still going
C3_Witness ==
    /\ pc # "idle"
    /\ \E k \in 1..Len(results) :
          results[k] = "APPLIED" /\ bk[files_to_backup[k]] # fs[files_to_backup[k]]

\* C4: after apply_all_patches runs and nothing else, every file of the backup
\* tree has the content the live file had before any patch touched it.
C4_BackupHoldsPristine ==
    (~edited /\ pc = "idle" /\ ret.reason = "COMPLETE")
       => \A p \in Paths : bk[p].exists => bk[p] = pristine[p]

\* C5: a restore, from main() or on a patcher, succeeds exactly when the backup
\* directory exists on disk, and then copies every backed-up file back.
C5_RestoreFailsOnlyWithoutBackupDir ==
    [][Called("restore_backup")
          => /\ ret'.ok <=> bkdir
             /\ ret'.ok => \A p \in Paths : bk[p].exists => fs'[p] = bk[p]]_vars

\* the lines between a header and a later line are the header's body: blank
\* or indented deeper than the header
IsBody(c, h, s) ==
    \A i \in (h + 1)..(s - 1) : Strip(c[i]) = << >> \/ Indent(c[i]) > Indent(c[h])

\* content c holds the target method once, its header at line h and depth 4,
\* then its body, then at line s the header of another method at depth 4
SiblingCase(c, header, h, s) ==
    /\ h < s
    /\ c[h] = L(4, << header >>)
    /\ \A i \in 1..Len(c) : i # h => ~Contains(c[i], header)
    /\ IsBody(c, h, s)
    /\ Indent(c[s]) = 4
    /\ StartsWithDef(c[s])

\* C6: with a sibling method header at depth 4 after the target method, both
\* method patches replace exactly the lines from the target's header to the
\* line before the sibling's header, and keep that header and all that follows.
C6_SiblingBoundary ==
    /\ Applied(MavlinkPath) =>
          LET c == pristine[MavlinkPath].content IN
          \A h, s \in 1..Len(c) :
             SiblingCase(c, DefPack, h, s) =>
                fs[MavlinkPath].content =
                   SubSeq(c, 1, h - 1) \o fixed_pack_code \o SubSeq(c, s, Len(c))
    /\ Applied(UserapiPath) =>
          LET c == pristine[UserapiPath].content IN
          \A h, s \in 1..Len(c) :
             SiblingCase(c, connect_pattern, h, s) =>
                fs[UserapiPath].content =
                   SubSeq(c, 1, h - 1) \o IndentedConnect(4) \o SubSeq(c, s, Len(c))

\* the pack patch was applied to a file with a body line and a sibling after it
C6_Witness ==
    /\ Applied(MavlinkPath)
    /\ LET c == pristine[MavlinkPath].content IN
       \E h, s \in 1..Len(c) : SiblingCase(c, DefPack, h, s) /\ s > h + 4 /\ s < Len(c)

\* the number of lines of c that contain tok
CountLines(c, tok) == Cardinality({ i \in 1..Len(c) : Contains(c[i], tok) })

\* line i of c belongs to a pack method: its header, or a non-blank line of
\* the body under it
InPackMethod(c, i) ==
    \E h \in 1..i :
       /\ Contains(c[h], DefPack)
       /\ Strip(c[i]) # << >>
       /\ IsBody(c, h, i + 1)

\* C7 as stated: after APPLIED the text has the marker token exactly once, no
\* line of the original pack method is left in it, and a second call returns
\* ALREADY_APPLIED.
C7_MarkerOnceOriginalGone ==
    Applied(MavlinkPath) =>
       LET c == pristine[MavlinkPath].content
           out == fs[MavlinkPath].content
       IN /\ CountLines(out, PackMarker) = 1
          /\ \A i \in 1..Len(c) : InPackMethod(c, i) => c[i] \notin Range(out)
          /\ patch_mavlink_header(fs[MavlinkPath]).reason = "ALREADY_APPLIED"

\* the first line after h that is non-blank, no deeper than line h and does not
\* open with a triple quote; one past the end if there is none
PackBlockEnd(c, h) ==
    LET ends == { i \in (h + 1)..Len(c) :
                     /\ c[i].txt # << >>
                     /\ c[i].ind <= c[h].ind
                     /\ c[i].txt[1] # TQ }
    IN IF ends = {} THEN Len(c) + 1
       ELSE CHOOSE i \in ends : \A j \in ends : i <= j

\* C7 amended: after APPLIED the text has the marker token once for every line
\* of the original that contains the pack header text; when one line does, the
\* lines from it to the block end are replaced by fixed_pack_code, which opens
\* with the pack header and repeats the docstring; and a second call returns ALREADY_APPLIED.
C7_MarkerPerHeader ==
    Applied(MavlinkPath) =>
       LET c == pristine[MavlinkPath].content
           out == fs[MavlinkPath].content
       IN /\ CountLines(out, PackMarker) = CountLines(c, DefPack)
          /\ CountLines(c, DefPack) = 1 =>
                \A h \in 1..Len(c) :
                   Contains(c[h], DefPack) =>
                      /\ out = SubSeq(c, 1, h - 1) \o fixed_pack_code
                                  \o SubSeq(c, PackBlockEnd(c, h), Len(c))
                      /\ \A k \in 1..3 : out[h + k] = c[h + k]
          /\ patch_mavlink_header(fs[MavlinkPath]).reason = "ALREADY_APPLIED"

\* the pack patch was applied to a file with two header lines and called again
C7_Witness ==
    /\ Applied(MavlinkPath)
    /\ CountLines(pristine[MavlinkPath].content, DefPack) = 2
    /\ ret.op = "patch_mavlink_header"
    /\ ret.reason = "ALREADY_APPLIED"

\* the text a patch method looks for is nowhere in c
NoLocatePattern(path, c) ==
    CASE path = MavlinkPath ->
            ~\E i \in 1..(Len(c) - 4) :
                /\ c[i].ind >= 4 /\ c[i].txt = << DefPack >>
                /\ c[i + 1].ind = 8 /\ c[i + 1].txt = << TQ >>
                /\ c[i + 2].ind = 8 /\ c[i + 2].txt = << PackDoc >>
                /\ c[i + 3].ind = 8 /\ c[i + 3].txt = << TQ >>
                /\ c[i + 4].ind >= 8
      [] path = TaskPath ->
            \A k \in 1..Len(udp_bind_patterns) : ~InContent(c, udp_bind_patterns[k])
      [] path = UserapiPath -> ~InContent(c, connect_pattern)

\* C8: called on a file that exists and holds neither the marker token nor the
\* text the patch looks for, a patch method returns failure PATTERN_NOT_FOUND,
\* opens nothing for writing and leaves the file as it was.
C8_PatternMiss ==
    [][\A p \in Paths :
          (/\ Called(MethodOf(p))
           /\ fs[p].exists
           /\ ~InContent(fs[p].content, MarkerOf(p))
           /\ NoLocatePattern(p, fs[p].content))
             => (/\ ret'.reason = "PATTERN_NOT_FOUND"
                 /\ ~ret'.ok
                 /\ ~ret'.wrote
                 /\ fs' = fs)]_vars

\* the pack patch missed a file that has the header line without its docstring
C8_Witness ==
    /\ ret.op = "patch_mavlink_header"
    /\ ret.reason = "PATTERN_NOT_FOUND"
    /\ InContent(fs[MavlinkPath].content, DefPack)

\* where the run goes after the patch method of a path
AfterPatch(path) ==
    CASE path = MavlinkPath -> PhaseOf(TaskPath)
      [] path = TaskPath    -> PhaseOf(UserapiPath)
      [] path = UserapiPath -> "VERIFY"

\* C9: in a run, the patch method of a missing file returns failure
\* FILE_MISSING and creates or writes no file, the run goes on to the next
\* target in the list, and a finished run with a missing target and another
\* target applied has called all three and reports success.
C9_MissingTarget ==
    /\ [][\A p \in Paths :
             (pc = PhaseOf(p) /\ pc' # pc /\ ~fs[p].exists)
                => (/\ ret'.op = MethodOf(p)
                    /\ ret'.reason = "FILE_MISSING"
                    /\ ~ret'.ok
                    /\ ~ret'.wrote
                    /\ fs' = fs /\ bk' = bk /\ bkdir' = bkdir
                    /\ pc' = AfterPatch(p))]_vars
    /\ []((/\ pc = "idle"
           /\ ret.op = "apply_all_patches"
           /\ "FILE_MISSING" \in Range(results))
             => (/\ Len(results) = Len(files_to_backup)
                 /\ ret.reason = "COMPLETE"
                 /\ "APPLIED" \in Range(results) => ret.ok))

\* a run finished with the first target missing and a later one applied
C9_Witness ==
    /\ pc = "idle"
    /\ ret.op = "apply_all_patches"
    /\ ret.ok
    /\ Len(results) = 3
    /\ results[1] = "FILE_MISSING"
    /\ results[3] = "APPLIED"

AllPhases ==
    << "LOCATE_INSTALL", "BACKUP", "APPLY_MAVLINK", "APPLY_UDP", "APPLY_USERAPI",
       "VERIFY", "REPORT" >>

WithoutVerify ==
    << "LOCATE_INSTALL", "BACKUP", "APPLY_MAVLINK", "APPLY_UDP", "APPLY_USERAPI",
       "REPORT" >>

IsPrefix(s, t) == Len(s) <= Len(t) /\ SubSeq(t, 1, Len(s)) = s

Finished == pc = "idle" /\ ret.op = "apply_all_patches"

\* C10 as stated: a run that is not aborted passes through all seven phases in
\* order, each once, and ends COMPLETE; a run is aborted only when the
\* installation is not found or the backup directory cannot be made.
C10_AllPhasesInOrder ==
    /\ IsPrefix(phases, AllPhases)
    /\ (Finished /\ ret.reason # "ABORTED") => (ret.reason = "COMPLETE" /\ phases = AllPhases)
    /\ (Finished /\ ret.reason = "ABORTED") => (~installed \/ ~bkdir)

\* C10 amended: a run that is not aborted passes, in this order and each once,
\* through LOCATE_INSTALL, BACKUP, the three APPLY phases, VERIFY only if at
\* least one patch method returned success, and REPORT, and ends COMPLETE; a
\* run is aborted only when the installation is not found.
C10_PhasesVerifyOnSuccess ==
    /\ IsPrefix(phases, AllPhases) \/ IsPrefix(phases, WithoutVerify)
    /\ "VERIFY" \in Range(phases) => success_count > 0
    /\ (Finished /\ ret.reason # "ABORTED") =>
          /\ ret.reason = "COMPLETE"
          /\ phases = IF success_count > 0 THEN AllPhases ELSE WithoutVerify
    /\ (Finished /\ ret.reason = "ABORTED") =>
          (~installed /\ phases = << "LOCATE_INSTALL" >>)

\* a run in which no patch method succeeded has finished
C10_Witness ==
    /\ Finished
    /\ ret.reason = "COMPLETE"
    /\ success_count = 0
    /\ phases = WithoutVerify

----------------------------------------------------------------------------
(* C11: abort on a missing installation *)

\* C11: when find_pyhula_installation cannot import the package, that step
\* ends the run with failure and touches nothing: no backup directory, no
\* file written, no patch method called, no verification, patches_applied
\* still empty; the finished run has entered LOCATE_INSTALL and no other phase
C11_AbortOnMissingInstall ==
    /\ [][(pc = "LOCATE_INSTALL" /\ ~installed /\ pc' # pc) =>
            /\ pc' = "idle"
            /\ ret' = Ret("apply_all_patches", "run", FALSE, "ABORTED", FALSE)
            /\ UNCHANGED << fs, bkdir, bk, backup_dir, patches_applied, results,
                            success_count, verified >>]_vars
    /\ []((Finished /\ ~installed) =>
            /\ ~ret.ok
            /\ phases = << "LOCATE_INSTALL" >>
            /\ ~bkdir
            /\ bk = NoFiles
            /\ ~backup_dir
            /\ results = << >>
            /\ verified = "none"
            /\ patches_applied = << >>)

C11_Witness ==
    /\ Finished
    /\ ~installed
    /\ ret.reason = "ABORTED"
    /\ phases = << "LOCATE_INSTALL" >>
    /\ \E p \in Paths : fs[p].exists

----------------------------------------------------------------------------
(* C12: what the return value of apply_all_patches counts *)

\* the targets of the finished run whose patch method ended with one of reasons
CountResults(reasons) == Cardinality({ k \in 1..Len(results) : results[k] \in reasons })

\* C12: apply_all_patches returns success exactly when at least one target
\* of the run was actually rewritten (result APPLIED)
C12_SuccessIffRewritten ==
    Finished => (ret.ok <=> CountResults({ "APPLIED" }) > 0)

\* C12, amended: apply_all_patches returns success exactly when at least one
\* patch method of the run returned True, freshly applied or already applied;
\* success_count is the number of those targets, and a run in which every
\* target ends FILE_MISSING or PATTERN_NOT_FOUND returns failure
C12_SuccessIffAnyPatchTrue ==
    Finished =>
        /\ ret.ok <=> CountResults({ "APPLIED", "ALREADY_APPLIED" }) > 0
        /\ ret.reason = "COMPLETE" =>
              success_count = CountResults({ "APPLIED", "ALREADY_APPLIED" })
        /\ Range(results) \subseteq { "FILE_MISSING", "PATTERN_NOT_FOUND" } => ~ret.ok

\* a run that rewrote nothing and still returned success
C12_Witness ==
    /\ Finished
    /\ ret.ok
    /\ ret.reason = "COMPLETE"
    /\ CountResults({ "APPLIED" }) = 0
    /\ CountResults({ "ALREADY_APPLIED" }) > 0

----------------------------------------------------------------------------
(* C13: an I/O fault in one target's apply step *)

\* C13: when reading or writing one target's file raises an I/O fault, only
\* that target's step is aborted: the run goes on to the next target (VERIFY
\* after the last), every target of the faulted run is attempted and the run
\* reaches REPORT
C13_FaultIsolated ==
    /\ [][\A p \in Paths :
            (pc = PhaseOf(p) /\ results' = Append(results, "IO_FAULT"))
                => pc' = AfterPatch(p)]_vars
    /\ []((pc = "idle" /\ "IO_FAULT" \in Range(results)) =>
            /\ Len(results) = Len(files_to_backup)
            /\ "REPORT" \in Range(phases))

----------------------------------------------------------------------------
(* C14: a failed verification *)

\* C14: verify_patches failing is only a value: the VERIFY step changes no
\* file, no backup and no counter and goes on to REPORT; REPORT changes no
\* file and returns success_count > 0 whatever verification said; so a run
\* whose verification failed has passed every phase, returns success, calls
\* no restore_backup, and every file it rewrote still holds its marker
C14_VerifyNonFatal ==
    /\ [][(pc = "VERIFY" /\ pc' # pc) =>
            /\ pc' = "REPORT"
            /\ UNCHANGED << fs, bkdir, bk, patches_applied, success_count, ret >>]_vars
    /\ [][(pc = "REPORT" /\ pc' # pc) =>
            /\ UNCHANGED << fs, bkdir, bk, patches_applied, verified >>
            /\ ret'.op = "apply_all_patches"
            /\ ret'.ok = (success_count > 0)]_vars
    /\ []((Finished /\ verified = "failed") =>
            /\ ret.ok
            /\ ret.reason = "COMPLETE"
            /\ phases = AllPhases
            /\ \A k \in 1..Len(results) :
                  results[k] = "APPLIED" =>
                      PatchOf(files_to_backup[k], fs[files_to_backup[k]]).reason
                          = "ALREADY_APPLIED")

C14_Witness ==
    /\ Finished
    /\ verified = "failed"
    /\ ret.ok
    /\ "APPLIED" \in Range(results)

----------------------------------------------------------------------------
(* C15: the command surface *)

\* the entry point each mode of main() calls
EntryOf(mode) ==
    CASE mode = "patch"   -> "apply_all_patches"
      [] mode = "restore" -> "restore_backup"
      [] mode = "verify"  -> "verify_patches"

\* C15: a process that has exited ran one of the three modes, the call that
\* ended it is that mode's entry point, and its exit status is 0 exactly
\* when that entry point reported success
C15_ExitStatusReflectsResult ==
    proc.exited =>
        /\ proc.mode \in { "patch", "restore", "verify" }
        /\ ret.op = EntryOf(proc.mode)
        /\ proc.status = 0 <=> ret.ok

\* the part of C15 that holds: one mode, its entry point, and status 0
\* whatever the entry point returned
C15_OneModeOneEntryPoint ==
    proc.exited =>
        /\ proc.mode \in { "patch", "restore", "verify" }
        /\ ret.op = EntryOf(proc.mode)
        /\ proc.status = 0

----------------------------------------------------------------------------
(* C16: where the replaced span of a method ends *)

\* C16: for both method patches, on a file with one header line, the text
\* after APPLIED is the lines before the header, the replacement, and then,
\* unchanged and in order, every line from the first later line that is
\* non-blank, no deeper than the header and does not open with a triple
\* quote (nothing if there is no such line)
C16_BlockTerminatorRule ==
    /\ (Applied(MavlinkPath) /\ CountLines(pristine[MavlinkPath].content, DefPack) = 1) =>
          LET c == pristine[MavlinkPath].content IN
          \A h \in 1..Len(c) :
             Contains(c[h], DefPack) =>
                fs[MavlinkPath].content =
                   SubSeq(c, 1, h - 1) \o fixed_pack_code
                      \o SubSeq(c, PackBlockEnd(c, h), Len(c))
    /\ (Applied(UserapiPath)
          /\ CountLines(pristine[UserapiPath].content, connect_pattern) = 1) =>
          LET c == pristine[UserapiPath].content IN
          \A h \in 1..Len(c) :
             Contains(c[h], connect_pattern) =>
                fs[UserapiPath].content =
                   SubSeq(c, 1, h - 1) \o IndentedConnect(Indent(c[h]))
                      \o SubSeq(c, PackBlockEnd(c, h), Len(c))

----------------------------------------------------------------------------
(* C17: which bind statements patch_udp_binding wraps *)

\* line i of out is the statement pat inside a retry block: under a try:
\* line that follows the marker comment
WrappedAt(out, i, pat) ==
    /\ i >= 3
    /\ out[i] = L(12, << pat >>)
    /\ out[i - 1] = L(8, << "try:" >>)
    /\ Contains(out[i - 2], UdpMarker)

\* a retry block around pat opens on line i of out and closes 14 lines on
OpensBlock(out, i, pat) ==
    /\ i + 14 <= Len(out)
    /\ Len(out[i].txt) >= 2
    /\ out[i].txt[Len(out[i].txt) - 1] = UdpMarker
    /\ WrappedAt(out, i + 2, pat)
    /\ out[i + 14].ind = 16
    /\ out[i + 14].txt # << >>
    /\ out[i + 14].txt[1] = "raise e"

\* out with every retry block around pat put back to the one line it stands
\* for: the text before the marker, pat, and the text after `raise e`
RECURSIVE Collapse(_, _, _)
Collapse(out, i, pat) ==
    IF i > Len(out) THEN << >>
    ELSE IF OpensBlock(out, i, pat)
         THEN << L(out[i].ind, SubSeq(out[i].txt, 1, Len(out[i].txt) - 2)
                                  \o << pat >> \o Tail(out[i + 14].txt)) >>
                 \o Collapse(out, i + 15, pat)
         ELSE << out[i] >> \o Collapse(out, i + 1, pat)

\* the variants of udp_bind_patterns that occur in c
VariantsIn(c) == { k \in 1..Len(udp_bind_patterns) : InContent(c, udp_bind_patterns[k]) }

\* patch_udp_binding has been called on a taskcontroller.py that exists and
\* came without the marker
UnmarkedUdpCall ==
    /\ ret.op = "patch_udp_binding"
    /\ pristine[TaskPath].exists
    /\ ~InContent(pristine[TaskPath].content, UdpMarker)

\* what C17 and its amended form share: on a taskcontroller.py without the
\* marker, no variant means PATTERN_NOT_FOUND and no write; otherwise the file
\* is rewritten once, carries the marker, and is the original with retry
\* blocks put around occurrences of one variant and nothing else changed
UdpPatchShape(c, out) ==
    IF VariantsIn(c) = {}
    THEN /\ ret.reason = "PATTERN_NOT_FOUND"
         /\ ~ret.ok /\ ~ret.wrote
         /\ out = c
         /\ patches_applied = << >>
    ELSE /\ ret.ok
         /\ patches_applied = << FixName(TaskPath) >>
         /\ ret.reason = "APPLIED" <=> ret.wrote
         /\ InContent(out, UdpMarker)
         /\ \E k \in VariantsIn(c) : Collapse(out, 1, udp_bind_patterns[k]) = c

\* C17: patch_udp_binding on a file without the marker misses when no variant
\* occurs and otherwise wraps the matched variant, changing nothing else,
\* after which no unwrapped occurrence of any of the four variants remains
C17_NoUnwrappedVariantLeft ==
    UnmarkedUdpCall =>
        LET c == pristine[TaskPath].content
            out == fs[TaskPath].content
        IN /\ UdpPatchShape(c, out)
           /\ \A k \in 1..Len(udp_bind_patterns) : \A i \in 1..Len(out) :
                 Contains(out[i], udp_bind_patterns[k]) => WrappedAt(out, i, udp_bind_patterns[k])

\* C17, amended: ... after which no unwrapped occurrence remains of the
\* first variant, in list order, that occurs in the file; every line holding
\* only later variants is left as it was, unwrapped
C17_FirstVariantWrapped ==
    UnmarkedUdpCall =>
        LET c == pristine[TaskPath].content
            out == fs[TaskPath].content
        IN /\ UdpPatchShape(c, out)
           /\ \A k \in VariantsIn(c) :
                 (\A m \in VariantsIn(c) : k <= m) =>
                    /\ Collapse(out, 1, udp_bind_patterns[k]) = c
                    /\ \A i \in 1..Len(out) :
                          Contains(out[i], udp_bind_patterns[k])
                             => WrappedAt(out, i, udp_bind_patterns[k])
                    /\ \A m \in VariantsIn(c) \ { k } :
                          /\ CountLines(out, udp_bind_patterns[m])
                                = CountLines(c, udp_bind_patterns[m])
                          /\ \A i \in 1..Len(out) :
                                Contains(out[i], udp_bind_patterns[m])
                                   => ~WrappedAt(out, i, udp_bind_patterns[m])

\* the patch wrapped one variant and left a statement of another as it was
C17_Witness ==
    /\ ret.op = "patch_udp_binding"
    /\ ret.reason = "APPLIED"
    /\ Cardinality(VariantsIn(pristine[TaskPath].content)) = 2
    /\ \E k \in 1..Len(udp_bind_patterns) : \E i \in 1..Len(fs[TaskPath].content) :
          /\ Contains(fs[TaskPath].content[i], udp_bind_patterns[k])
          /\ ~WrappedAt(fs[TaskPath].content, i, udp_bind_patterns[k])

----------------------------------------------------------------------------
(* C18: what the retry block binds on the fallback *)

\* a bind statement read as the call it makes: the socket object, and the
\* host and port expressions of the address
BindOf(stmt) ==
    CASE stmt = udp_bind_patterns[1] ->
            [sock |-> "self.sock", host |-> "''", port |-> "self.listen_port"]
      [] stmt = udp_bind_patterns[2] ->
            [sock |-> "self.sock", host |-> "''", port |-> "self.listen_port"]
      [] stmt = udp_bind_patterns[3] ->
            [sock |-> "sock", host |-> "''", port |-> "port"]
      [] stmt = udp_bind_patterns[4] ->
            [sock |-> "sock", host |-> "''", port |-> "port"]
      [] stmt = "self.sock.bind(('127.0.0.1', self.listen_port))" ->
            [sock |-> "self.sock", host |-> "'127.0.0.1'", port |-> "self.listen_port"]
      [] stmt = "self.sock.bind(('127.0.0.1', 0))" ->
            [sock |-> "self.sock", host |-> "'127.0.0.1'", port |-> "0"]

\* C18: in every retry block patch_udp_binding writes, whichever variant it
\* wraps, the handler of the address-not-available fault first binds the
\* socket of the wrapped statement to loopback at that statement's port
\* expression, then that same socket to loopback at port 0, and any other
\* fault is raised again
C18_FallbackBindsSameSocket ==
    (UnmarkedUdpCall /\ ret.ok) =>
        LET out == fs[TaskPath].content IN
        \A k \in 1..Len(udp_bind_patterns) : \A i \in 1..Len(out) :
           WrappedAt(out, i, udp_bind_patterns[k]) =>
              LET orig   == BindOf(udp_bind_patterns[k])
                  first  == BindOf(out[i + 5].txt[1])
                  second == BindOf(out[i + 9].txt[1])
              IN /\ out[i + 1] = L(8, << "except OSError as e:" >>)
                 /\ out[i + 2] = L(12, << "if e.winerror == 10049:  # Address not valid" >>)
                 /\ first = [sock |-> orig.sock, host |-> "'127.0.0.1'", port |-> orig.port]
                 /\ second = [sock |-> orig.sock, host |-> "'127.0.0.1'", port |-> "0"]
                 /\ out[i + 11] = L(12, << "else:" >>)
                 /\ out[i + 12].ind = 16
                 /\ out[i + 12].txt[1] = "raise e"

\* the part of C18 that holds: the same for the two variants that bind
\* self.sock to self.listen_port
C18_FallbackForSelfSock ==
    (UnmarkedUdpCall /\ ret.ok) =>
        LET out == fs[TaskPath].content IN
        \A k \in 1..2 : \A i \in 1..Len(out) :
           WrappedAt(out, i, udp_bind_patterns[k]) =>
              LET orig   == BindOf(udp_bind_patterns[k])
                  first  == BindOf(out[i + 5].txt[1])
                  second == BindOf(out[i + 9].txt[1])
              IN /\ first = [sock |-> orig.sock, host |-> "'127.0.0.1'", port |-> orig.port]
                 /\ second = [sock |-> orig.sock, host |-> "'127.0.0.1'", port |-> "0"]
                 /\ out[i + 12].txt[1] = "raise e"

----------------------------------------------------------------------------
(* C19: what a patch method's return value says about the file *)

\* C19: whenever one of the three patch methods returns success, freshly
\* applied or already applied, its file exists and holds that target's
\* marker token, so that the same method called next would return
\* ALREADY_APPLIED without writing; whenever it returns failure, every file
\* is exactly what it was before the call
C19_SuccessImpliesMarker ==
    [][\A p \in Paths :
          Called(MethodOf(p)) =>
             /\ ret'.ok =>
                   /\ fs'[p].exists
                   /\ InContent(fs'[p].content, MarkerOf(p))
                   /\ PatchOf(p, fs'[p]).reason = "ALREADY_APPLIED"
                   /\ PatchOf(p, fs'[p]).file = fs'[p]
             /\ ~ret'.ok => fs' = fs]_vars

\* a patch method failed on one path, and then another rewrote a file that
\* had no marker
C19_Witness ==
    \E p \in Paths :
       /\ ret.op = MethodOf(p)
       /\ ret.reason = "APPLIED"
       /\ ~InContent(pristine[p].content, MarkerOf(p))
       /\ InContent(fs[p].content, MarkerOf(p))
       /\ budget = MaxSteps - 2

====
